---- MODULE Spec2Model ----
(***************************************************************************)
(* Model of worker/modal_import_worker.py: the import orchestrator         *)
(* (process_import), the deduplicating writer (save_jobs_to_database) and  *)
(* the normalizer (normalize_job).                                         *)
(*                                                                         *)
(* Representation of Python values:                                        *)
(*   - a dictionary field that may be absent, None or a string is a record *)
(*     [kind, val] with kind in {"absent", "null", "str"};                 *)
(*   - job titles, companies and URLs are run-length encoded strings: a    *)
(*     sequence of runs <<c, n>>, n >= 1 copies of the character c, with   *)
(*     neighbouring runs of different characters, so that slicing ([:500]) *)
(*     is computed, not assumed, and equal strings are equal values;       *)
(*   - messages are sequences of text pieces (the string is their          *)
(*     concatenation), so that f-strings and "; ".join are computed.       *)
(***************************************************************************)
EXTENDS Integers, Sequences, FiniteSets, TLC

VARIABLES
    environ,              \* os.environ and the invocation's arguments
    import_sessions,      \* table import_sessions: id -> row
    import_site_results,  \* table import_site_results: id -> row
    jobs_table,           \* table jobs: sequence of rows, in insertion order
    pi,                   \* process_import: its position and local variables
    wr,                   \* the invocations of save_jobs_to_database
    calls,                \* direct calls of save_jobs_to_database: how many, and the last one
    refJobs,              \* the jobs table of the run without the raising sites
    raisedSites,          \* ids of the site results whose processing raised
    fn,                   \* a pure function applied on its own: its argument and result
    eng                   \* search_site_with_computer_use: its position and local variables

vars == <<environ, import_sessions, import_site_results, jobs_table, pi, wr,
          calls, refJobs, raisedSites, fn, eng>>

-----------------------------------------------------------------------------
(* Bounds of the model *)

MaxSites == 2
MaxJobs == 2
MaxCalls == 2

-----------------------------------------------------------------------------
(* Python values *)

Absent == [kind |-> "absent", val |-> <<>>]
Null == [kind |-> "null", val |-> <<>>]
Str(s) == [kind |-> "str", val |-> s]

\* bool(x) of an optional string
Truthy(x) == x.kind = "str" /\ x.val # <<>>

\* dict.get(key, default) for a field that is absent, None or a string
Get(field, default) == IF field.kind = "absent" THEN default ELSE field

\* the string of one character c
Chr(c) == << <<c, 1>> >>

\* s[:n]
RECURSIVE Slice(_, _)
Slice(s, n) ==
    IF s = <<>> \/ n <= 0 THEN <<>>
    ELSE IF s[1][2] >= n THEN << <<s[1][1], n>> >>
    ELSE <<s[1]>> \o Slice(Tail(s), n - s[1][2])

-----------------------------------------------------------------------------
(* normalize_job *)

TitleMax == 500
CompanyMax == 255
UrlMax == 2000

\* a string of n+1 characters: n times the character 7, then c
Long(n, c) == << <<7, n>>, <<c, 1>> >>

\* The raw jobs the extraction engine may hand over.  JA and JC differ only
\* behind the 500th character of the title, JA and JB only behind the 2000th
\* character of the URL; JD has JA's URL and no title; JH and JI share nothing.
RawJob ==
    [JA |-> [title |-> Str(Long(TitleMax, 1)), company |-> Str(Chr(1)),
             url |-> Str(Long(UrlMax, 1)),
             employment_type |-> Str("Full Time"), location |-> Str("Remote")],
     JB |-> [title |-> Str(Chr(2)), company |-> Str(Chr(1)),
             url |-> Str(Long(UrlMax, 2)),
             employment_type |-> Absent, location |-> Str("Austin, TX")],
     JC |-> [title |-> Str(Long(TitleMax, 2)), company |-> Str(Chr(1)),
             url |-> Str(Chr(3)),
             employment_type |-> Str("Contract"), location |-> Absent],
     JD |-> [title |-> Str(<<>>), company |-> Str(Chr(1)),
             url |-> Str(Long(UrlMax, 1)),
             employment_type |-> Str("Part-Time"), location |-> Str("REMOTE (US)")],
     JE |-> [title |-> Str(Chr(4)), company |-> Absent,
             url |-> Absent,
             employment_type |-> Str("Internship"), location |-> Str("Remote")],
     JF |-> [title |-> Null, company |-> Str(Chr(2)),
             url |-> Str(Chr(5)),
             employment_type |-> Absent, location |-> Absent],
     JH |-> [title |-> Str(Chr(8)), company |-> Str(Chr(8)),
             url |-> Str(Chr(8)),
             employment_type |-> Absent, location |-> Str("Remote")],
     JI |-> [title |-> Str(Chr(9)), company |-> Str(Chr(8)),
             url |-> Str(Chr(9)),
             employment_type |-> Str("Contract"), location |-> Str("Austin, TX")]]

JobIds == DOMAIN RawJob

\* emp_type = job.get("employment_type", "full_time").lower().replace(" ", "_"),
\* tabulated on the texts of RawJob
LowerUnderscore(t) ==
    CASE t = "Full Time" -> "full_time"
      [] t = "Part-Time" -> "part-time"
      [] t = "Contract" -> "contract"
      [] t = "Internship" -> "internship"
      [] t = "full_time" -> "full_time"

\* job_type_map.get(emp_type, "full_time")
JobTypeMap(e) ==
    CASE e = "full_time" -> "full_time"
      [] e = "full-time" -> "full_time"
      [] e = "part_time" -> "part_time"
      [] e = "part-time" -> "part_time"
      [] e = "contract" -> "contract"
      [] e = "freelance" -> "freelance"
      [] OTHER -> "full_time"

\* "remote" in location.lower(), tabulated on the texts of RawJob
RemoteIn(t) ==
    CASE t = "Remote" -> TRUE
      [] t = "REMOTE (US)" -> TRUE
      [] t = "Austin, TX" -> FALSE

\* normalize_job raises (TypeError / AttributeError) when a field that is
\* sliced or lower-cased is present and is not a string
NormalizeRaises(job) ==
    \/ job.title.kind = "null"
    \/ job.company.kind = "null"
    \/ job.url.kind = "null"
    \/ job.employment_type.kind = "null"
    \/ job.location.kind = "null"

\* str(e) of that exception
NormalizeError(job) ==
    IF job.employment_type.kind = "null" \/ job.location.kind = "null"
    THEN <<"'NoneType' object has no attribute 'lower'">>
    ELSE <<"'NoneType' object is not subscriptable">>

\* the dictionary normalize_job returns (salary, dates and the timestamp of
\* normalization are not part of the model)
normalize_job(job, source) ==
    [title |-> Slice(Get(job.title, Str(<<>>)).val, TitleMax),
     company |-> Slice(Get(job.company, Str(<<>>)).val, CompanyMax),
     currency |-> "USD",
     job_type |-> JobTypeMap(LowerUnderscore(
                      Get(job.employment_type, Str("full_time")).val)),
     timezone |-> IF RemoteIn(Get(job.location, Str("Remote")).val)
                  THEN "global" ELSE "None",
     experience_level |-> "any",
     url |-> Slice(Get(job.url, Str(<<>>)).val, UrlMax),
     source |-> source,
     is_active |-> TRUE]

NoRow == [title |-> <<>>, company |-> <<>>, currency |-> "", job_type |-> "",
          timezone |-> "", experience_level |-> "", url |-> <<>>,
          source |-> "", is_active |-> FALSE]

\* a jobs argument: None, or a list of raw jobs (named by their ids)
NullList == [kind |-> "null", val |-> <<>>]
List(l) == [kind |-> "list", val |-> l]

-----------------------------------------------------------------------------
(* parse_salary: strings are sequences of characters *)

\* more amounts than this are not written into a salary string
MaxAmounts == 2

Digits == {"0", "1", "2", "3", "4", "5", "6", "7", "8", "9"}

DigitValue ==
    [c \in Digits |->
        CASE c = "0" -> 0 [] c = "1" -> 1 [] c = "2" -> 2 [] c = "3" -> 3
          [] c = "4" -> 4 [] c = "5" -> 5 [] c = "6" -> 6 [] c = "7" -> 7
          [] c = "8" -> 8 [] c = "9" -> 9]

\* an optional integer: None or an int
NoneInt == [kind |-> "null", val |-> 0]
SomeInt(n) == [kind |-> "int", val |-> n]

\* s starts with pat
StartsWith(s, pat) ==
    /\ Len(s) >= Len(pat)
    /\ SubSeq(s, 1, Len(pat)) = pat

\* s.replace(pat, rep): the occurrences from left to right, not overlapping
RECURSIVE StrReplace(_, _, _)
StrReplace(s, pat, rep) ==
    IF s = <<>> THEN <<>>
    ELSE IF StartsWith(s, pat)
    THEN rep \o StrReplace(SubSeq(s, Len(pat) + 1, Len(s)), pat, rep)
    ELSE <<Head(s)>> \o StrReplace(Tail(s), pat, rep)

\* lines 635-636
Cleaned(s) ==
    LET a == StrReplace(s, <<"$">>, <<>>)
        b == StrReplace(a, <<",">>, <<>>)
        c == StrReplace(b, <<"/", "y", "e", "a", "r">>, <<>>)
        d == StrReplace(c, <<"/", "y", "r">>, <<>>)
        e == StrReplace(d, <<"k">>, <<"0", "0", "0">>)
    IN  StrReplace(e, <<"K">>, <<"0", "0", "0">>)

\* the length of the longest run of digits s starts with
RECURSIVE DigitRun(_)
DigitRun(s) ==
    IF s # <<>> /\ Head(s) \in Digits THEN 1 + DigitRun(Tail(s)) ELSE 0

\* re.findall(r"(\d+(?:\.\d+)?)", s): the matches, each as its integer and
\* fractional digits
RECURSIVE FindNumbers(_)
FindNumbers(s) ==
    IF s = <<>> THEN <<>>
    ELSE LET n == DigitRun(s)
         IN  IF n = 0 THEN FindNumbers(Tail(s))
             ELSE LET rest == SubSeq(s, n + 1, Len(s))
                      m == IF rest # <<>> /\ Head(rest) = "."
                           THEN DigitRun(Tail(rest)) ELSE 0
                      used == IF m > 0 THEN n + 1 + m ELSE n
                  IN  <<[int |-> SubSeq(s, 1, n),
                         frac |-> SubSeq(s, n + 2, n + 1 + m)]>>
                      \o FindNumbers(SubSeq(s, used + 1, Len(s)))

\* the value of a run of digits
RECURSIVE DigitsValue(_)
DigitsValue(ds) ==
    IF ds = <<>> THEN 0
    ELSE 10 * DigitsValue(SubSeq(ds, 1, Len(ds) - 1)) + DigitValue[ds[Len(ds)]]

\* int(float(number)): the fraction is cut off
IntOfFloat(number) == DigitsValue(number.int)

\* below this a value is taken for an hourly rate
HourlyBelow == 500

\* hours of a working year
HoursPerYear == 2080

\* lines 643-646: both values are annualized when the first is an hourly rate
AnnualizedPair(min_val, max_val) ==
    IF min_val < HourlyBelow
    THEN [min |-> SomeInt(min_val * HoursPerYear), max |-> SomeInt(max_val * HoursPerYear)]
    ELSE [min |-> SomeInt(min_val), max |-> SomeInt(max_val)]

\* lines 651-654
AnnualizedSingle(val) ==
    IF val < HourlyBelow
    THEN [min |-> SomeInt(val * HoursPerYear), max |-> SomeInt(val * HoursPerYear)]
    ELSE [min |-> SomeInt(val), max |-> SomeInt(val)]

parse_salary(salary_str) ==
    IF salary_str = <<>>
    THEN [min |-> NoneInt, max |-> NoneInt]
    ELSE LET numbers == FindNumbers(Cleaned(salary_str))
         IN  IF Len(numbers) >= 2
             THEN AnnualizedPair(IntOfFloat(numbers[1]), IntOfFloat(numbers[2]))
             ELSE IF Len(numbers) = 1
             THEN AnnualizedSingle(IntOfFloat(numbers[1]))
             ELSE [min |-> NoneInt, max |-> NoneInt]

-----------------------------------------------------------------------------
(* parse_claude_response: a response text is a sequence of pieces, each a  *)
(* code fence (three backquotes, written <fence>), a brace, a member of a  *)
(* JSON object, a JSON array or prose                                      *)

\* a response text has at most this many pieces
MaxPieces == 5

Fence == "<fence>json"
FenceEnd == "<fence>"
JobsEmpty == "<jobs>: []"
JobsOne == "<jobs>: [JH]"
ErrorOnly == "<error>: <blocked>"
EmptyArray == "[]"
OneArray == "[1]"
Prose == "Here are the jobs I found"

Members == {JobsEmpty, JobsOne, ErrorOnly}
\* the pieces of the texts parse_claude_response is applied to on its own
Pieces == {Fence, FenceEnd, "{", "}", JobsEmpty, ErrorOnly, EmptyArray, Prose}

\* a JSON value as Python holds it: a dict with what it has under "jobs",
\* "error" and "search_url", or a list; len is its number of keys or elements
NoJson ==
    [type |-> "none", len |-> 0, jobs |-> Absent, error |-> Absent,
     search_url |-> Absent]
JsonObject(len, jobs, error) ==
    [type |-> "object", len |-> len, jobs |-> jobs, error |-> error,
     search_url |-> Absent]
JsonArray(len) ==
    [type |-> "array", len |-> len, jobs |-> Absent, error |-> Absent,
     search_url |-> Absent]

\* json.loads accepts the text
JsonValid(t) ==
    \/ t \in {<<EmptyArray>>, <<OneArray>>}
    \/ t = <<"{", "}">>
    \/ Len(t) = 3 /\ t[1] = "{" /\ t[2] \in Members /\ t[3] = "}"

\* json.loads(t) of a text it accepts
JsonValue(t) ==
    IF t = <<EmptyArray>> THEN JsonArray(0)
    ELSE IF t = <<OneArray>> THEN JsonArray(1)
    ELSE IF Len(t) = 2 THEN JsonObject(0, Absent, Absent)
    ELSE IF t[2] = JobsEmpty THEN JsonObject(1, List(<<>>), Absent)
    ELSE IF t[2] = JobsOne THEN JsonObject(1, List(<<"JH">>), Absent)
    ELSE JsonObject(1, Absent, Str(<<"blocked">>))

\* the positions of the pieces of t that are in S
Positions(t, S) == {i \in 1..Len(t) : t[i] \in S}

Min(S) == CHOOSE x \in S : \A y \in S : x <= y
Max(S) == CHOOSE x \in S : \A y \in S : x >= y

\* re.search(r"<fence>json\s*([\s\S]*?)\s*<fence>", t): whether it matches, and its
\* group: what stands between the first json fence and the next fence
FencedMatch(t) ==
    LET opens == Positions(t, {Fence})
    IN  opens # {} /\ \E j \in Positions(t, {Fence, FenceEnd}) : j > Min(opens)
FencedGroup(t) ==
    LET i == Min(Positions(t, {Fence}))
        j == Min({k \in Positions(t, {Fence, FenceEnd}) : k > i})
    IN  SubSeq(t, i + 1, j - 1)

\* re.search(r"\{[\s\S]*\}", t): from the first opening brace to the last
\* closing brace after it
BraceMatch(t) ==
    \E i \in Positions(t, {"{"}) : \E j \in Positions(t, {"}"}) : i < j
BraceGroup(t) ==
    LET i == Min(Positions(t, {"{"}))
        j == Max(Positions(t, {"}"}))
    IN  SubSeq(t, i, j)

\* line 585: what is returned when nothing parses
FailedToParse ==
    JsonObject(2, List(<<>>), Str(<<"Failed to parse response">>))

parse_claude_response(response_text) ==
    IF FencedMatch(response_text) /\ JsonValid(FencedGroup(response_text))
    THEN JsonValue(FencedGroup(response_text))
    ELSE IF BraceMatch(response_text) /\ JsonValid(BraceGroup(response_text))
    THEN JsonValue(BraceGroup(response_text))
    ELSE FailedToParse

\* no function is being applied
FnOff ==
    [op |-> "off", done |-> FALSE, text |-> <<>>,
     salary |-> [min |-> NoneInt, max |-> NoneInt], parsed |-> NoJson]

-----------------------------------------------------------------------------
(* save_jobs_to_database *)

\* 1 is the invocation process_import calls, 2 that of another worker
Writers == {1, 2}

IdleWriter ==
    [pc |-> "idle", jobs |-> List(<<>>), source |-> "", k |-> 0,
     imported |-> 0, duplicates |-> 0, normalized |-> NoRow,
     insert_failed |-> <<>>, exc |-> <<>>, fresh |-> FALSE, clean |-> FALSE]

\* a gate that looks at the URL only
GateSkipsMut(n) == n.url = <<>>

\* if not normalized.get("url") or not normalized.get("title"): continue
GateSkips(n) == n.url = <<>> \/ n.title = <<>>

\* a select by URL that never finds a row
ExistingByUrlMut(table, url) == {}

\* supabase.table("jobs").select("id").eq("url", url).execute().data
ExistingByUrl(table, url) ==
    {i \in 1..Len(table) : table[i].url = url}

\* ...select("id").eq("title", title).eq("company", company).execute().data
ExistingByTitleCompany(table, title, company) ==
    {i \in 1..Len(table) : table[i].title = title /\ table[i].company = company}

\* an insert that adds no second row with a URL the table has
InsertRowMut(table, row) ==
    IF \E i \in 1..Len(table) : table[i].url = row.url THEN table
    ELSE Append(table, row)

\* supabase.table("jobs").insert(normalized).execute()
InsertRow(table, row) == Append(table, row)

\* a writer that does not count its inserts
ImportedAfterInsertMut(n) == n

\* the value of "imported" after a successful insert
ImportedAfterInsert(n) == n + 1

\* what a caller sees of a finished call s, with what the call was given
Outcome(s) ==
    [pc |-> s.pc, jobs |-> s.jobs, source |-> s.source, imported |-> s.imported,
     duplicates |-> s.duplicates, fresh |-> s.fresh, clean |-> s.clean]

\* no direct call yet
NoCalls == [n |-> 0, last |-> Outcome(IdleWriter)]

\* entry: imported = 0, duplicates = 0, the loop is before its first job
WriterEntry(jobs, source, fresh) ==
    [IdleWriter EXCEPT !.pc = "loop", !.jobs = jobs, !.source = source,
                       !.k = 1, !.fresh = fresh, !.clean = TRUE]

\* the loop moves on to the next job
NextJob(s) == [s EXCEPT !.pc = "loop", !.k = s.k + 1, !.normalized = NoRow]

Raise(s, msg) == [s EXCEPT !.pc = "raised", !.exc = msg, !.clean = FALSE]

\* for job in jobs: normalized = normalize_job(...); the empty title/URL gate
W_Loop(w) ==
    /\ wr[w].pc = "loop"
    /\ LET s == wr[w]
       IN  wr' = [wr EXCEPT ![w] =
                IF s.jobs.kind = "null"
                THEN Raise(s, <<"'NoneType' object is not iterable">>)
                ELSE IF s.k > Len(s.jobs.val)
                THEN [s EXCEPT !.pc = "returned"]
                ELSE LET job == RawJob[s.jobs.val[s.k]]
                     IN  IF NormalizeRaises(job)
                         THEN Raise(s, NormalizeError(job))
                         ELSE LET n == normalize_job(job, s.source)
                              IN  IF GateSkips(n)
                                  THEN [NextJob(s) EXCEPT !.insert_failed = Append(@, FALSE)]
                                  ELSE [s EXCEPT !.pc = "select_url",
                                                 !.normalized = n]]
    /\ UNCHANGED jobs_table

\* the select by URL answers or raises; a match counts one duplicate
W_SelectUrl(w) ==
    /\ wr[w].pc = "select_url"
    /\ LET s == wr[w]
       IN  \E answers \in BOOLEAN :
             wr' = [wr EXCEPT ![w] =
                IF ~answers
                THEN Raise(s, <<"store read failed">>)
                ELSE IF ExistingByUrl(jobs_table, s.normalized.url) # {}
                THEN [NextJob(s) EXCEPT !.duplicates = @ + 1,
                                        !.insert_failed = Append(@, FALSE)]
                ELSE [s EXCEPT !.pc = "select_title_company"]]
    /\ UNCHANGED jobs_table

\* the select by (title, company) answers or raises; a match counts one duplicate
W_SelectTitleCompany(w) ==
    /\ wr[w].pc = "select_title_company"
    /\ LET s == wr[w]
       IN  \E answers \in BOOLEAN :
             wr' = [wr EXCEPT ![w] =
                IF ~answers
                THEN Raise(s, <<"store read failed">>)
                ELSE IF ExistingByTitleCompany(jobs_table, s.normalized.title,
                                               s.normalized.company) # {}
                THEN [NextJob(s) EXCEPT !.duplicates = @ + 1,
                                        !.insert_failed = Append(@, FALSE)]
                ELSE [s EXCEPT !.pc = "insert"]]
    /\ UNCHANGED jobs_table

\* a writer without the try around its insert
AfterFailedInsertMut(s) == Raise(s, <<"insert failed">>)

\* except Exception as e: print(...): the loop goes on with the next job
AfterFailedInsert(s) ==
    [NextJob(s) EXCEPT !.insert_failed = Append(@, TRUE), !.clean = FALSE]

\* try: insert; imported += 1 / except Exception: print
W_Insert(w) ==
    /\ wr[w].pc = "insert"
    /\ LET s == wr[w]
       IN  \E succeeds \in BOOLEAN :
             IF succeeds
             THEN /\ jobs_table' = InsertRow(jobs_table, s.normalized)
                  /\ wr' = [wr EXCEPT ![w] =
                        [NextJob(s) EXCEPT !.imported = ImportedAfterInsert(@),
                                           !.insert_failed = Append(@, FALSE)]]
             ELSE /\ jobs_table' = jobs_table
                  /\ wr' = [wr EXCEPT ![w] = AfterFailedInsert(s)]

WriterStep(w) ==
    \/ W_Loop(w)
    \/ W_SelectUrl(w)
    \/ W_SelectTitleCompany(w)
    \/ W_Insert(w)

\* save_jobs_to_database as a function of the table, for a call in which no
\* select raises: job k's insert fails exactly when insert_failed[k]
RECURSIVE SaveJobsFrom(_, _, _, _, _)
SaveJobsFrom(table, jobs, source, insert_failed, k) ==
    IF k > Len(jobs)
    THEN [table |-> table, imported |-> 0, duplicates |-> 0]
    ELSE LET n == normalize_job(RawJob[jobs[k]], source)
             dup == \/ ExistingByUrl(table, n.url) # {}
                    \/ ExistingByTitleCompany(table, n.title, n.company) # {}
             ins == ~GateSkips(n) /\ ~dup /\ ~insert_failed[k]
             rest == SaveJobsFrom(IF ins THEN InsertRow(table, n) ELSE table,
                                  jobs, source, insert_failed, k + 1)
         IN  [table |-> rest.table,
              imported |-> rest.imported + (IF ins THEN 1 ELSE 0),
              duplicates |-> rest.duplicates
                             + (IF ~GateSkips(n) /\ dup THEN 1 ELSE 0)]

-----------------------------------------------------------------------------
(* The tables import_sessions and import_site_results *)

SessionId == "s1"
OtherSessionId == "s2"

\* table.update(fields).eq("id", id): the rows with that id take the fields
Update(table, id, fields) ==
    [r \in DOMAIN table |-> IF r = id THEN fields @@ table[r] ELSE table[r]]

\* a session as it is created, before a worker picks it up
PendingSession ==
    [status |-> "pending", search_params |-> [roles |-> "python developer",
                                              location |-> "Remote"],
     started_at |-> "None", completed_at |-> "None",
     total_jobs_found |-> 0, total_jobs_imported |-> 0,
     total_duplicates_skipped |-> 0, error_message |-> Null]

\* a site result as it is created with its session
PendingSite(session_id, site_id) ==
    [session_id |-> session_id, site_id |-> site_id, status |-> "pending",
     search_url |-> Null, jobs_found |-> 0, jobs_imported |-> 0,
     duplicates_skipped |-> 0, error_message |-> Null,
     started_at |-> "None", completed_at |-> "None"]

\* select("*").eq("session_id", session_id): the ids of the rows, in the
\* order the store returns them (here: by id)
SelectSites(table, session_id) ==
    LET n == Cardinality(DOMAIN table)
        all == [i \in 1..n |-> i]
    IN  SelectSeq(all, LAMBDA r : table[r].session_id = session_id)

-----------------------------------------------------------------------------
(* build_search_url *)

\* search_params.get("location", "remote").lower() == "remote", on the
\* locations of the model
IsRemote(location) == location = "Remote"

KnownSites == {"linkedin", "indeed", "glassdoor", "dice", "wellfound"}

\* a builder that has a URL for every site
build_search_urlMut(site_id, search_params) ==
    <<"https://www.google.com/search?", "q=", search_params.roles, "+", site_id>>

\* the URL as its pieces, or the empty string for a site without a builder;
\* the piece "<roles>" stands for the url-encoded joined roles
build_search_url(site_id, search_params) ==
    LET roles == search_params.roles
        location == search_params.location
        remote == IsRemote(location)
    IN  CASE site_id = "linkedin" ->
               <<"https://www.linkedin.com/jobs/search/?", "keywords=", roles,
                 "&location=", location, "&f_TPR=r604800">>
               \o (IF remote THEN <<"&f_WT=2">> ELSE <<>>)
          [] site_id = "indeed" ->
               <<"https://www.indeed.com/jobs?", "q=", roles, "&l=",
                 IF remote THEN "Remote" ELSE location, "&fromage=7">>
               \o (IF remote THEN <<"&sc=0kf:attr(DSQF7);">> ELSE <<>>)
          [] site_id = "glassdoor" ->
               <<"https://www.glassdoor.com/Job/jobs.htm?", "sc.keyword=", roles,
                 "&locT=N", "&locId=1">>
               \o (IF remote THEN <<"&remoteWorkType=1">> ELSE <<>>)
          [] site_id = "dice" ->
               <<"https://www.dice.com/jobs?", "q=", roles, "&location=",
                 IF remote THEN "Remote" ELSE location>>
               \o (IF remote THEN <<"&filters.isRemote=true">> ELSE <<>>)
          [] site_id = "wellfound" ->
               <<"https://wellfound.com/role/", "python-developer">>
               \o (IF remote THEN <<"?remote=true">> ELSE <<>>)
          [] OTHER -> <<>>

-----------------------------------------------------------------------------
(* search_site_with_computer_use, as process_import sees it: a call that *)
(* returns a result dictionary or raises                                 *)

\* the jobs the engine hands over in the orchestrator's runs
EngineJobs == {"JH", "JI", "JF"}

JobLists(ids) == UNION {[1..n -> ids] : n \in 0..MaxJobs}

\* the result dictionaries: "jobs" missing, None or a list; "error" missing
\* (or None), empty or a message
EngineResults(site_id, search_params) ==
    IF build_search_url(site_id, search_params) = <<>>
    THEN {[jobs |-> List(<<>>), error |-> Str(<<"Unknown site: ", site_id>>)]}
    ELSE {[jobs |-> j, error |-> e] :
            j \in {Absent, NullList} \cup {List(l) : l \in JobLists(EngineJobs)},
            e \in {Absent, Str(<<>>), Str(<<"Max iterations reached">>)}}

\* an exception that leaves search_site_with_computer_use (the browser could
\* not be launched: the launch is outside its try block)
EngineExceptions == {<<"BrowserType.launch: Executable doesn't exist">>}

\* search_site_with_computer_use is not running: no playwright, no browser
EngOff ==
    [pc |-> "off", site_id |-> "", search_url |-> <<>>, iteration |-> 0,
     playwright |-> "off", browser |-> "none", loop_calls |-> 0,
     fallback_calls |-> 0, screenshots |-> 0, fallback_screenshots |-> 0,
     actions |-> 0, final_result |-> NoJson, result |-> NoJson, exc |-> <<>>,
     path |-> "", messages |-> <<>>, content |-> <<>>, executed |-> <<>>]

-----------------------------------------------------------------------------
(* process_import *)

\* a or b, on optional strings
PyOr(a, b) == IF Truthy(a) THEN a ELSE b

\* f"{site_id}: {error}"
SiteError(site_id, msg) == <<site_id, ": ">> \o msg

\* sep.join(list)
RECURSIVE Join(_, _)
Join(sep, list) ==
    IF list = <<>> THEN <<>>
    ELSE IF Len(list) = 1 THEN list[1]
    ELSE list[1] \o <<sep>> \o Join(sep, Tail(list))

\* an update without the message
SessionFailedFieldsMut ==
    [status |-> "failed", error_message |-> Str(<<>>)]

\* the update of lines 775-780
SessionFailedFields ==
    [status |-> "failed",
     error_message |-> Str(<<"No API key configured. Please add your Anthropic API key in Preferences.">>)]

\* the update of lines 803-808
SessionRunningFields == [status |-> "running", started_at |-> "now"]

\* an orchestrator that ends its sessions as failed
FinalStatusMut == "failed"

\* final_status = "completed"
FinalStatus == "completed"

\* "; ".join(errors) if errors else None
ErrorMessage(errors) == IF errors # <<>> THEN Str(Join("; ", errors)) ELSE Null

\* the update of lines 885-894
SessionCompleteFields(found, imported, duplicates, errors) ==
    [status |-> FinalStatus, total_jobs_found |-> found,
     total_jobs_imported |-> imported, total_duplicates_skipped |-> duplicates,
     completed_at |-> "now", error_message |-> ErrorMessage(errors)]

\* an update that leaves the site pending
SiteRunningFieldsMut(url) ==
    [status |-> "pending", started_at |-> "now", search_url |-> Str(url)]

\* the update of lines 825-831
SiteRunningFields(url) ==
    [status |-> "running", started_at |-> "now", search_url |-> Str(url)]

\* an orchestrator that ignores the engine's error
SiteStatusMut(error) == "completed"

\* "completed" if not error else "failed"
SiteStatus(error) == IF ~Truthy(error) THEN "completed" ELSE "failed"

\* an update that records the counts and leaves the site running
SiteResultFieldsMut(error, found, imported, duplicates) ==
    [status |-> "running", jobs_found |-> found,
     jobs_imported |-> imported, duplicates_skipped |-> duplicates,
     error_message |-> IF error.kind = "str" THEN error ELSE Null,
     completed_at |-> "now"]

\* the update of lines 853-862
SiteResultFields(error, found, imported, duplicates) ==
    [status |-> SiteStatus(error), jobs_found |-> found,
     jobs_imported |-> imported, duplicates_skipped |-> duplicates,
     error_message |-> IF error.kind = "str" THEN error ELSE Null,
     completed_at |-> "now"]

\* the update of lines 875-881
SiteFailedFields(msg) ==
    [status |-> "failed", error_message |-> Str(msg), completed_at |-> "now"]

\* totals that keep the last site's count only
AddTotalMut(total, n) == n

\* total += n
AddTotal(total, n) == total + n

\* a loop that leaves out every other site
NextSiteMut(i) == i + 2

\* the for loop goes to the next site
NextSite(i) == i + 1

PiOff ==
    [pc |-> "off", api_key |-> Null, search_params |-> [roles |-> "", location |-> ""],
     sites |-> <<>>, i |-> 0, total_found |-> 0, total_imported |-> 0,
     total_duplicates |-> 0, errors |-> <<>>, jobs |-> List(<<>>),
     error |-> Null, ret |-> ""]

\* the site result of the current iteration
Site == import_site_results[pi.sites[pi.i]]

\* lines 762-769: without the store's credentials the invocation returns
P_Connect ==
    /\ pi.pc = "start"
    /\ pi' = IF environ.supabase
             THEN [pi EXCEPT !.pc = "api_key"]
             ELSE [pi EXCEPT !.pc = "done", !.ret = "Missing Supabase credentials"]
    /\ UNCHANGED <<environ, import_sessions, import_site_results, jobs_table,
                   wr, calls, refJobs, raisedSites, fn, eng>>

\* lines 771-783: the API key, or the session is marked failed
P_ApiKey ==
    /\ pi.pc = "api_key"
    /\ LET api_key == PyOr(environ.user_api_key, environ.ANTHROPIC_API_KEY)
       IN  IF ~Truthy(api_key)
           THEN /\ import_sessions' =
                       Update(import_sessions, SessionId, SessionFailedFields)
                /\ pi' = [pi EXCEPT !.pc = "done", !.ret = "No API key available"]
           ELSE /\ import_sessions' = import_sessions
                /\ pi' = [pi EXCEPT !.pc = "fetch", !.api_key = api_key]
    /\ UNCHANGED <<environ, import_site_results, jobs_table, wr, calls,
                   refJobs, raisedSites, fn, eng>>

\* lines 786-800: the session and its site results are read
P_Fetch ==
    /\ pi.pc = "fetch"
    /\ pi' = IF SessionId \notin DOMAIN import_sessions
             THEN [pi EXCEPT !.pc = "done", !.ret = "Session not found"]
             ELSE [pi EXCEPT !.pc = "mark_running",
                             !.search_params = import_sessions[SessionId].search_params,
                             !.sites = SelectSites(import_site_results, SessionId)]
    /\ UNCHANGED <<environ, import_sessions, import_site_results, jobs_table,
                   wr, calls, refJobs, raisedSites, fn, eng>>

\* lines 802-813
P_MarkRunning ==
    /\ pi.pc = "mark_running"
    /\ import_sessions' = Update(import_sessions, SessionId, SessionRunningFields)
    /\ pi' = [pi EXCEPT !.pc = "sites", !.i = 1, !.total_found = 0,
                        !.total_imported = 0, !.total_duplicates = 0,
                        !.errors = <<>>]
    /\ UNCHANGED <<environ, import_site_results, jobs_table, wr, calls,
                   refJobs, raisedSites, fn, eng>>

\* lines 816-831: the next site is marked running
P_SiteRunning ==
    /\ pi.pc = "sites"
    /\ pi.i <= Len(pi.sites)
    /\ import_site_results' =
           Update(import_site_results, pi.sites[pi.i],
                  SiteRunningFields(build_search_url(Site.site_id, pi.search_params)))
    /\ pi' = [pi EXCEPT !.pc = "search"]
    /\ UNCHANGED <<environ, import_sessions, jobs_table, wr, calls, refJobs,
                   raisedSites, fn, eng>>

\* lines 835-850: the engine returns; its error is noted and the writer called
Returned(result) ==
    LET jobs == Get(result.jobs, List(<<>>))
        error == Get(result.error, Null)
    IN  /\ pi' = [pi EXCEPT !.pc = "save", !.jobs = jobs, !.error = error,
                     !.errors = IF Truthy(error)
                                THEN Append(@, SiteError(Site.site_id, error.val))
                                ELSE @]
        /\ wr' = [wr EXCEPT ![1] = WriterEntry(jobs, Site.site_id, FALSE)]

\* the engine returns one of its result dictionaries
P_SearchReturns ==
    /\ pi.pc = "search"
    /\ \E result \in EngineResults(Site.site_id, pi.search_params) : Returned(result)
    /\ UNCHANGED <<environ, import_sessions, import_site_results, jobs_table,
                   calls, refJobs, raisedSites, fn, eng>>

\* lines 870-881: the handler of an exception of the try block
Except(msg) ==
    /\ import_site_results' =
           Update(import_site_results, pi.sites[pi.i], SiteFailedFields(msg))
    /\ pi' = [pi EXCEPT !.pc = "sites", !.i = NextSite(@),
                        !.errors = Append(@, SiteError(Site.site_id, msg))]
    /\ raisedSites' = raisedSites \cup {pi.sites[pi.i]}

\* the engine raises
P_SearchRaises ==
    /\ pi.pc = "search"
    /\ build_search_url(Site.site_id, pi.search_params) # <<>>
    /\ \E msg \in EngineExceptions : Except(msg)
    /\ UNCHANGED <<environ, import_sessions, jobs_table, wr, calls, refJobs, fn, eng>>

\* the writer runs
P_Save ==
    /\ pi.pc = "save"
    /\ WriterStep(1)
    /\ UNCHANGED <<environ, import_sessions, import_site_results, pi, calls,
                   refJobs, raisedSites, fn, eng>>

\* lines 850-868: the writer returns; the site result and the totals
P_SaveReturns ==
    /\ pi.pc = "save"
    /\ wr[1].pc = "returned"
    /\ LET found == Len(pi.jobs.val)
           imported == wr[1].imported
           duplicates == wr[1].duplicates
       IN  /\ import_site_results' =
                  Update(import_site_results, pi.sites[pi.i],
                         SiteResultFields(pi.error, found, imported, duplicates))
           /\ pi' = [pi EXCEPT !.pc = "sites", !.i = NextSite(@),
                        !.total_found = AddTotal(@, found),
                        !.total_imported = AddTotal(@, imported),
                        !.total_duplicates = AddTotal(@, duplicates)]
    /\ wr' = [wr EXCEPT ![1] = IdleWriter]
    /\ refJobs' = SaveJobsFrom(refJobs, pi.jobs.val, Site.site_id,
                               wr[1].insert_failed, 1).table
    /\ UNCHANGED <<environ, import_sessions, jobs_table, calls, raisedSites, fn, eng>>

\* the writer raises
P_SaveRaises ==
    /\ pi.pc = "save"
    /\ wr[1].pc = "raised"
    /\ Except(wr[1].exc)
    /\ wr' = [wr EXCEPT ![1] = IdleWriter]
    /\ UNCHANGED <<environ, import_sessions, jobs_table, calls, refJobs, fn, eng>>

\* lines 883-904: the session is marked completed
P_Complete ==
    /\ pi.pc = "sites"
    /\ pi.i > Len(pi.sites)
    /\ import_sessions' =
           Update(import_sessions, SessionId,
                  SessionCompleteFields(pi.total_found, pi.total_imported,
                                        pi.total_duplicates, pi.errors))
    /\ pi' = [pi EXCEPT !.pc = "done", !.ret = FinalStatus]
    /\ UNCHANGED <<environ, import_site_results, jobs_table, wr, calls,
                   refJobs, raisedSites, fn, eng>>

-----------------------------------------------------------------------------
(* One invocation of process_import *)

\* the site identifiers of the site results of a session
SiteIdOrders == {<<"linkedin", "indeed", "monster", "glassdoor">>,
                 <<"monster", "dice", "wellfound", "linkedin">>}

\* the rows of the jobs table before the invocation
InitialTables == {<<>>, <<normalize_job(RawJob["JH"], "indeed")>>}

Init ==
    /\ environ \in [supabase : BOOLEAN,
                    user_api_key : {Null, Str(<<>>), Str(<<"sk-ant-user">>)},
                    ANTHROPIC_API_KEY : {Null, Str(<<"sk-ant-platform">>)}]
    /\ import_sessions \in
          {[s \in {OtherSessionId} |-> PendingSession],
           [s \in {SessionId, OtherSessionId} |-> PendingSession]}
    /\ \E n \in 0..MaxSites : \E order \in SiteIdOrders :
          import_site_results =
             [r \in 1..(n + 1) |->
                IF r <= n THEN PendingSite(SessionId, order[r])
                ELSE PendingSite(OtherSessionId, "linkedin")]
    /\ jobs_table \in InitialTables
    /\ pi = [PiOff EXCEPT !.pc = "start"]
    /\ wr = [w \in Writers |-> IdleWriter]
    /\ calls = NoCalls
    /\ refJobs = jobs_table
    /\ raisedSites = {}
    /\ fn = FnOff
    /\ eng = EngOff

Next ==
    \/ P_Connect
    \/ P_ApiKey
    \/ P_Fetch
    \/ P_MarkRunning
    \/ P_SiteRunning
    \/ P_SearchReturns
    \/ P_SearchRaises
    \/ P_Save
    \/ P_SaveReturns
    \/ P_SaveRaises
    \/ P_Complete

Spec == Init /\ [][Next]_vars

\* the invocations on an empty jobs table with no user-supplied key
InitFair ==
    /\ Init
    /\ environ.user_api_key = Null
    /\ jobs_table = <<>>

\* the invocation runs on while it can: it is one coroutine, never preempted
\* for good
FairSpec == InitFair /\ [][Next]_vars /\ WF_vars(Next)

-----------------------------------------------------------------------------
(* save_jobs_to_database called directly, one call after the other *)

\* the jobs a caller may pass
WriterJobs == {"JB", "JC", "JD", "JE"}

WriterSources == {"linkedin"}

SaveInitialTables == {<<>>, <<normalize_job(RawJob["JA"], "indeed")>>}

\* every job of the list normalizes to a non-empty title and URL, no two of
\* them to the same URL or the same (title, company), and none matches a row
\* of the table
Fresh(table, jobs, source) ==
    LET N(k) == normalize_job(RawJob[jobs[k]], source)
    IN  \A k \in 1..Len(jobs) :
           /\ ~NormalizeRaises(RawJob[jobs[k]])
           /\ N(k).url # <<>>
           /\ N(k).title # <<>>
           /\ \A i \in 1..Len(table) :
                 /\ table[i].url # N(k).url
                 /\ ~(table[i].title = N(k).title /\ table[i].company = N(k).company)
           /\ \A j \in 1..(k - 1) :
                 /\ ~NormalizeRaises(RawJob[jobs[j]])
                 /\ N(j).url # N(k).url
                 /\ ~(N(j).title = N(k).title /\ N(j).company = N(k).company)

InitSave ==
    /\ environ = [supabase |-> TRUE, user_api_key |-> Null,
                  ANTHROPIC_API_KEY |-> Null]
    /\ import_sessions = [s \in {OtherSessionId} |-> PendingSession]
    /\ import_site_results = <<>>
    /\ jobs_table \in SaveInitialTables
    /\ pi = PiOff
    /\ wr = [w \in Writers |-> IdleWriter]
    /\ calls = NoCalls
    /\ refJobs = <<>>
    /\ raisedSites = {}
    /\ fn = FnOff
    /\ eng = EngOff

\* a caller passes a list of jobs (or None) and a site
S_Call ==
    /\ \A w \in Writers : wr[w].pc = "idle"
    /\ calls.n < MaxCalls
    /\ \E jobs \in {NullList} \cup {List(l) : l \in JobLists(WriterJobs)} :
       \E source \in WriterSources :
          wr' = [wr EXCEPT ![1] =
                    WriterEntry(jobs, source,
                                jobs.kind = "list" /\ Fresh(jobs_table, jobs.val, source))]
    /\ UNCHANGED <<environ, import_sessions, import_site_results, jobs_table,
                   pi, calls, refJobs, raisedSites, fn, eng>>

\* the call runs
S_Step ==
    /\ WriterStep(1)
    /\ UNCHANGED <<environ, import_sessions, import_site_results, pi, calls,
                   refJobs, raisedSites, fn, eng>>

\* the call returns (imported, duplicates) or raises
S_Return ==
    /\ wr[1].pc \in {"returned", "raised"}
    /\ calls' = [n |-> calls.n + 1, last |-> Outcome(wr[1])]
    /\ wr' = [wr EXCEPT ![1] = IdleWriter]
    /\ UNCHANGED <<environ, import_sessions, import_site_results, jobs_table,
                   pi, refJobs, raisedSites, fn, eng>>

NextSave ==
    \/ S_Call
    \/ S_Step
    \/ S_Return

SpecSave == InitSave /\ [][NextSave]_vars

-----------------------------------------------------------------------------
(* Properties of process_import *)

HasSession == SessionId \in DOMAIN import_sessions

\* the session row, when there is one
Session == import_sessions[SessionId]

\* the ids of the site results of the session
SessionSites ==
    {r \in DOMAIN import_site_results : import_site_results[r].session_id = SessionId}

Terminal == {"completed", "failed"}

RECURSIVE Sum(_, _)
Sum(f, S) ==
    IF S = {} THEN 0
    ELSE LET x == CHOOSE y \in S : TRUE IN f[x] + Sum(f, S \ {x})

\* the sum of one counter over site results
SumFound(S) == Sum([r \in DOMAIN import_site_results |-> import_site_results[r].jobs_found], S)
SumImported(S) == Sum([r \in DOMAIN import_site_results |-> import_site_results[r].jobs_imported], S)
SumDuplicates(S) == Sum([r \in DOMAIN import_site_results |-> import_site_results[r].duplicates_skipped], S)

\* neither a user-supplied key nor a platform default
NoKey == ~Truthy(environ.user_api_key) /\ ~Truthy(environ.ANTHROPIC_API_KEY)

\* the step in which the handler of a site's exception runs
ExceptStep == raisedSites' # raisedSites

\* the step in which a site whose calls returned gets its result
ResultStep == pi.pc = "save" /\ pi'.pc = "sites" /\ raisedSites' = raisedSites

\* the step that marks the session completed
CompleteStep == pi.pc = "sites" /\ pi'.pc = "done"

\* C1: when the extraction or the writer call of a site raises, that site's
\* record becomes failed with the exception's message; every other site is
\* processed and gets the status and counts it gets in the run without the
\* raising sites (same engine results, same failing inserts); and the session
\* is marked completed with totals that are the sums over the sites that did
\* not raise.
C1_RaisingSiteIsolated ==
    [][ /\ ExceptStep =>
              LET row == import_site_results'[pi.sites[pi.i]]
              IN  /\ row.status = "failed"
                  /\ IF pi.pc = "save"
                     THEN row.error_message = Str(wr[1].exc)
                     ELSE row.error_message \in {Str(m) : m \in EngineExceptions}
        /\ ResultStep =>
              LET row == import_site_results'[pi.sites[pi.i]]
                  ref == SaveJobsFrom(refJobs, pi.jobs.val, Site.site_id,
                                      wr[1].insert_failed, 1)
              IN  /\ row.status = (IF Truthy(pi.error) THEN "failed" ELSE "completed")
                  /\ row.jobs_found = Len(pi.jobs.val)
                  /\ row.jobs_imported = ref.imported
                  /\ row.duplicates_skipped = ref.duplicates
        /\ CompleteStep =>
              /\ \A r \in SessionSites : import_site_results[r].status \in Terminal
              /\ Session'.status = "completed"
              /\ Session'.total_jobs_found = SumFound(SessionSites \ raisedSites)
              /\ Session'.total_jobs_imported = SumImported(SessionSites \ raisedSites)
              /\ Session'.total_duplicates_skipped = SumDuplicates(SessionSites \ raisedSites)
      ]_vars

\* C2: once the session is marked running it is eventually marked completed,
\* whatever the sites' outcomes (every engine call returns or raises, every
\* store write succeeds).
C2_RunningLeadsToCompleted ==
    (HasSession /\ Session.status = "running")
        ~> (HasSession /\ Session.status = "completed")

\* a session completed although every one of its sites failed, one of them by
\* an exception
C2_Witness ==
    /\ HasSession
    /\ Session.status = "completed"
    /\ Cardinality(SessionSites) = MaxSites
    /\ raisedSites # {}
    /\ \A r \in SessionSites : import_site_results[r].status = "failed"

\* C3 as stated: without any API key the session is marked failed with a
\* non-empty message and the invocation halts; no site result is modified, no
\* extraction is invoked, no job is inserted.
C3_NoKeyFailsSession ==
    [][ NoKey =>
          /\ import_site_results' = import_site_results
          /\ jobs_table' = jobs_table
          /\ pi'.pc \notin {"search", "save"}
          /\ (pi'.pc = "done" /\ HasSession) =>
                /\ Session'.status = "failed"
                /\ Truthy(Session'.error_message)
      ]_vars

\* C3, amended: the same, when the store's credentials are configured.
C3_NoKeyFailsSessionWithStore ==
    [][ (NoKey /\ environ.supabase) =>
          /\ import_site_results' = import_site_results
          /\ jobs_table' = jobs_table
          /\ pi'.pc \notin {"search", "save"}
          /\ pi'.pc \in {"api_key", "done"}
          /\ (pi'.pc = "done" /\ HasSession) =>
                /\ Session'.status = "failed"
                /\ Truthy(Session'.error_message)
      ]_vars

\* the invocation has halted on the missing key, with site results waiting
C3_Witness ==
    /\ NoKey
    /\ environ.supabase
    /\ HasSession
    /\ pi.pc = "done"
    /\ Session.status = "failed"
    /\ Cardinality(SessionSites) = MaxSites

\* C4: the status of a site result only ever changes from pending to running
\* and from running to completed or failed.
C4_SiteStatusMonotone ==
    [][ \A r \in DOMAIN import_site_results :
          LET a == import_site_results[r].status
              b == import_site_results'[r].status
          IN  \/ a = b
              \/ a = "pending" /\ b = "running"
              \/ a = "running" /\ b \in Terminal
      ]_vars

\* all sites of a session done, one completed and one failed
C4_Witness ==
    /\ pi.pc = "done"
    /\ \E r, q \in SessionSites :
          /\ import_site_results[r].status = "completed"
          /\ import_site_results[q].status = "failed"

\* C5: when a site's engine and writer calls return, its record becomes
\* completed if the engine's error is missing or empty and failed otherwise,
\* with jobs_found the number of jobs of the engine result and jobs_imported,
\* duplicates_skipped the counts the writer returned; and a record that is
\* completed or failed is not changed again.
C5_SiteResultOfReturningCalls ==
    [][ /\ ResultStep =>
              LET row == import_site_results'[pi.sites[pi.i]]
              IN  /\ row.status = "completed" <=> ~Truthy(pi.error)
                  /\ row.status = "failed" <=> Truthy(pi.error)
                  /\ row.jobs_found = Len(pi.jobs.val)
                  /\ row.jobs_imported = wr[1].imported
                  /\ row.duplicates_skipped = wr[1].duplicates
        /\ \A r \in DOMAIN import_site_results :
              import_site_results[r].status \in Terminal
                 => import_site_results'[r] = import_site_results[r]
      ]_vars

\* a site failed on the engine's error with a job imported, another completed
\* with a duplicate skipped
C5_Witness ==
    \E r, q \in SessionSites :
       /\ r \notin raisedSites
       /\ import_site_results[r].status = "failed"
       /\ import_site_results[r].jobs_imported >= 1
       /\ import_site_results[q].status = "completed"
       /\ import_site_results[q].duplicates_skipped >= 1

\* f"{site_id}: {error_message}" of a failed site result
RecordedError(r) ==
    SiteError(import_site_results[r].site_id, import_site_results[r].error_message.val)

\* C6: a completed session's totals are the sums of the counts recorded on its
\* site results; its error message is absent exactly when none of its sites
\* failed, and otherwise is the errors of the sites joined by "; " in the
\* order in which the sites were processed.
C6_CompletedSessionTotals ==
    (HasSession /\ Session.status = "completed") =>
        /\ Session.total_jobs_found = SumFound(SessionSites)
        /\ Session.total_jobs_imported = SumImported(SessionSites)
        /\ Session.total_duplicates_skipped = SumDuplicates(SessionSites)
        /\ Session.error_message = Null
              <=> \A r \in SessionSites : import_site_results[r].status # "failed"
        /\ Session.error_message # Null =>
              /\ Session.error_message = Str(Join("; ", pi.errors))
              /\ \A a \in 1..Len(pi.errors) :
                    \E p \in 1..Len(pi.sites) :
                       /\ import_site_results[pi.sites[p]].status = "failed"
                       /\ pi.errors[a][1] = import_site_results[pi.sites[p]].site_id
              /\ \A p \in 1..Len(pi.sites) :
                    import_site_results[pi.sites[p]].status = "failed" =>
                       \E a \in 1..Len(pi.errors) :
                          /\ pi.errors[a] = RecordedError(pi.sites[p])
                          /\ \A q \in 1..(p - 1) :
                                import_site_results[pi.sites[q]].status = "failed" =>
                                   \E b \in 1..(a - 1) :
                                      pi.errors[b] = RecordedError(pi.sites[q])

\* a completed session with jobs found at two sites, both failed
C6_Witness ==
    /\ HasSession
    /\ Session.status = "completed"
    /\ Session.error_message # Null
    /\ Session.total_jobs_imported >= 2
    /\ \E r, q \in SessionSites :
          /\ r # q
          /\ import_site_results[r].status = "failed"
          /\ import_site_results[r].jobs_found >= 1
          /\ import_site_results[q].status = "failed"
          /\ import_site_results[q].jobs_found >= 1

-----------------------------------------------------------------------------
(* Properties of save_jobs_to_database *)

\* the job the loop of the call is at
CurrentJob == RawJob[wr[1].jobs.val[wr[1].k]]

\* the second of two calls with the same list and site has returned, as the
\* first did
SameListTwice ==
    /\ wr[1].pc = "returned"
    /\ calls.n = 1
    /\ calls.last.pc = "returned"
    /\ calls.last.jobs = wr[1].jobs
    /\ calls.last.source = wr[1].source

\* C7 as stated: the same list of N jobs submitted twice to the same site
\* yields (N, 0) on the first call and (0, N) on the second.
C7_Idempotent ==
    SameListTwice =>
        LET N == Len(wr[1].jobs.val)
        IN  /\ calls.last.imported = N
            /\ calls.last.duplicates = 0
            /\ wr[1].imported = 0
            /\ wr[1].duplicates = N

\* C7, amended: it does so when every job of the list normalizes to a
\* non-empty title and URL, no two jobs of the list normalize to the same URL
\* or the same (title, company), none matches a row the store holds before the
\* first call, and no store read or insert fails in either call.
C7_IdempotentOnFreshList ==
    (SameListTwice /\ calls.last.fresh /\ calls.last.clean /\ wr[1].clean) =>
        LET N == Len(wr[1].jobs.val)
        IN  /\ calls.last.imported = N
            /\ calls.last.duplicates = 0
            /\ wr[1].imported = 0
            /\ wr[1].duplicates = N

\* a list of two new jobs has been submitted twice
C7_Witness ==
    /\ SameListTwice
    /\ calls.last.fresh
    /\ calls.last.clean
    /\ wr[1].clean
    /\ Len(wr[1].jobs.val) = 2
    /\ wr[1].duplicates = 2

\* a row of the table has the URL, or the title and company, of row n
MatchesUrl(table, n) == \E i \in 1..Len(table) : table[i].url = n.url
MatchesTitleCompany(table, n) ==
    \E i \in 1..Len(table) : table[i].title = n.title /\ table[i].company = n.company

\* C8: a job is inserted only when the store holds no row with its URL and no
\* row with its (title, company); a job whose URL check, or failing that whose
\* (title, company) check, finds a row is counted as one duplicate, is not
\* inserted, and the loop goes to the next job.
C8_InsertOnlyIfNew ==
    [][ LET s == wr[1]
            t == wr'[1]
            duplicate == /\ t.duplicates = s.duplicates + 1
                         /\ t.imported = s.imported
                         /\ jobs_table' = jobs_table
                         /\ t.pc = "loop"
                         /\ t.k = s.k + 1
        IN  /\ jobs_table' # jobs_table =>
                 /\ s.pc = "insert"
                 /\ jobs_table' = Append(jobs_table, s.normalized)
                 /\ s.normalized = normalize_job(CurrentJob, s.source)
                 /\ ~MatchesUrl(jobs_table, s.normalized)
                 /\ ~MatchesTitleCompany(jobs_table, s.normalized)
            /\ (s.pc = "select_url" /\ t.pc # "raised"
                  /\ MatchesUrl(jobs_table, s.normalized)) => duplicate
            /\ (s.pc = "select_title_company" /\ t.pc # "raised"
                  /\ MatchesTitleCompany(jobs_table, s.normalized)) => duplicate
            /\ (s.pc = "select_url" /\ t.pc # "raised"
                  /\ ~MatchesUrl(jobs_table, s.normalized)) =>
                     t.pc = "select_title_company"
      ]_vars

\* a call has counted one job a duplicate by its URL and one by its title and
\* company, and inserted neither
C8_Witness ==
    /\ wr[1].pc = "returned"
    /\ wr[1].jobs = List(<<"JB", "JC">>)
    /\ wr[1].duplicates = 2
    /\ wr[1].imported = 0
    /\ Len(jobs_table) = 1

\* C9: a job whose normalized title or URL is empty changes neither counter
\* nor the store, and the loop goes on with the next job of the batch.
C9_EmptyTitleOrUrlSkipped ==
    [][ LET s == wr[1]
            t == wr'[1]
        IN  (/\ s.pc = "loop"
             /\ s.jobs.kind = "list"
             /\ s.k <= Len(s.jobs.val)
             /\ ~NormalizeRaises(CurrentJob)
             /\ LET n == normalize_job(CurrentJob, s.source)
                IN  n.title = <<>> \/ n.url = <<>>)
            => /\ t.imported = s.imported
               /\ t.duplicates = s.duplicates
               /\ jobs_table' = jobs_table
               /\ t.pc = "loop"
               /\ t.k = s.k + 1
      ]_vars

\* a call has skipped a job without a title and inserted the job after it
C9_Witness ==
    /\ wr[1].pc = "returned"
    /\ wr[1].jobs = List(<<"JD", "JC">>)
    /\ wr[1].imported = 1
    /\ wr[1].duplicates = 0
    /\ Len(jobs_table) = 1

\* C10: an insert that fails changes neither counter nor the store, and the
\* loop goes on with the next job of the batch; a site whose writer call had
\* a failed insert is completed unless the engine reported an error.
C10_FailedInsertSkipped ==
    [][ LET s == wr[1]
            t == wr'[1]
        IN  /\ (s.pc = "insert" /\ jobs_table' = jobs_table) =>
                  /\ t.imported = s.imported
                  /\ t.duplicates = s.duplicates
                  /\ t.pc = "loop"
                  /\ t.k = s.k + 1
            /\ (ResultStep /\ ~Truthy(pi.error)) =>
                  import_site_results'[pi.sites[pi.i]].status = "completed"
            /\ ExceptStep => s.pc # "insert"
      ]_vars

\* the insert of a site's first job failed and its second job was inserted
C10_Witness ==
    /\ pi.pc = "save"
    /\ ~Truthy(pi.error)
    /\ wr[1].pc = "returned"
    /\ wr[1].insert_failed = <<TRUE, FALSE>>
    /\ wr[1].imported = 1
    /\ wr[1].duplicates = 0

-----------------------------------------------------------------------------
(* Properties of normalize_job inside save_jobs_to_database *)

\* the loop of the writer process_import called is at a job of its list
AtJob ==
    /\ wr[1].pc = "loop"
    /\ wr[1].jobs.kind = "list"
    /\ wr[1].k <= Len(wr[1].jobs.val)

\* C11: normalize_job returns a row for every raw job, also one with absent
\* or null fields, with defaults for the bad fields, and the writer goes on
\* to the following jobs: the step that normalizes a job never leaves the
\* call by an exception, and it leaves the loop at the gate or at the URL
\* check of that job.
C11_NormalizeTotal ==
    [][ AtJob =>
          /\ wr'[1].pc # "raised"
          /\ \/ wr'[1].pc = "loop" /\ wr'[1].k = wr[1].k + 1
             \/ /\ wr'[1].pc = "select_url"
                /\ wr'[1].normalized = normalize_job(CurrentJob, wr[1].source)
      ]_vars

-----------------------------------------------------------------------------
(* Properties of the session's status *)

\* C20: a session's status becomes failed only by the update of the API key
\* check, and a session that is running never becomes failed.
C20_FailedOnlyBeforeRunning ==
    [][ HasSession =>
          /\ (Session'.status = "failed" /\ Session.status # "failed") =>
                /\ pi.pc = "api_key"
                /\ NoKey
                /\ Session.status = "pending"
          /\ Session.status = "running" => Session'.status \in {"running", "completed"}
          /\ Session.status = "completed" => Session'.status = "completed"
      ]_vars

\* a session is completed with all of its sites failed
C20_Witness ==
    /\ HasSession
    /\ Session.status = "completed"
    /\ Cardinality(SessionSites) = MaxSites
    /\ \A r \in SessionSites : import_site_results[r].status = "failed"
    /\ \E r \in SessionSites : r \notin raisedSites

-----------------------------------------------------------------------------
(* parse_salary and parse_claude_response applied on their own *)

\* the amounts of a salary string: digits, then nothing, "k" or a fraction
AmountDigits == {<<"4", "0">>, <<"4", "9", "9">>, <<"5", "0", "0">>, <<"6", "0", "0">>}
AmountEnds == {<<>>, <<"k">>, <<".", "5">>}
Amounts == {d \o e : d \in AmountDigits, e \in AmountEnds}

SalaryPrefixes == {<<>>, <<"$">>}
SalarySuffixes == {<<>>, <<"/", "y", "r">>, <<"/", "h", "r">>}

\* the amounts joined by " - "
RECURSIVE Range(_)
Range(amounts) ==
    IF amounts = <<>> THEN <<>>
    ELSE IF Len(amounts) = 1 THEN amounts[1]
    ELSE amounts[1] \o <<" ", "-", " ">> \o Range(Tail(amounts))

\* the salary strings: "", "$40 - 600k/yr", "499.5/hr", ...
SalaryStrings ==
    {p \o Range(a) \o s :
        p \in SalaryPrefixes,
        a \in UNION {[1..n -> Amounts] : n \in 0..MaxAmounts},
        s \in SalarySuffixes}

\* the response texts
ResponseTexts == UNION {[1..n -> Pieces] : n \in 0..MaxPieces}

InitFn ==
    /\ environ = [supabase |-> TRUE, user_api_key |-> Null,
                  ANTHROPIC_API_KEY |-> Null]
    /\ import_sessions = [s \in {OtherSessionId} |-> PendingSession]
    /\ import_site_results = <<>>
    /\ jobs_table = <<>>
    /\ pi = PiOff
    /\ wr = [w \in Writers |-> IdleWriter]
    /\ calls = NoCalls
    /\ refJobs = <<>>
    /\ raisedSites = {}
    /\ eng = EngOff
    /\ fn \in {[FnOff EXCEPT !.op = "parse_salary", !.text = s] : s \in SalaryStrings}
         \cup {[FnOff EXCEPT !.op = "parse_claude_response", !.text = t] :
                  t \in ResponseTexts}

F_ParseSalary ==
    /\ fn.op = "parse_salary"
    /\ ~fn.done
    /\ fn' = [fn EXCEPT !.done = TRUE, !.salary = parse_salary(fn.text)]
    /\ UNCHANGED <<environ, import_sessions, import_site_results, jobs_table,
                   pi, wr, calls, refJobs, raisedSites, eng>>

F_ParseResponse ==
    /\ fn.op = "parse_claude_response"
    /\ ~fn.done
    /\ fn' = [fn EXCEPT !.done = TRUE, !.parsed = parse_claude_response(fn.text)]
    /\ UNCHANGED <<environ, import_sessions, import_site_results, jobs_table,
                   pi, wr, calls, refJobs, raisedSites, eng>>

NextFn ==
    \/ F_ParseSalary
    \/ F_ParseResponse

SpecFn == InitFn /\ [][NextFn]_vars

-----------------------------------------------------------------------------
(* Properties of parse_salary *)

\* parse_salary has returned
SalaryParsed == fn.op = "parse_salary" /\ fn.done

\* the numbers re.findall extracts from the string, as integers
Extracted ==
    LET numbers == FindNumbers(Cleaned(fn.text))
    IN  [i \in 1..Len(numbers) |-> IntOfFloat(numbers[i])]

\* a value, multiplied by 2080 when it is below 500
Annualized(v) == IF v < 500 THEN v * 2080 ELSE v

\* C17: for a salary string with two extractable numbers parse_salary
\* returns a pair with min <= max.
C17_MinAtMostMax ==
    (SalaryParsed /\ Len(Extracted) >= 2) =>
        /\ fn.salary.min.kind = "int"
        /\ fn.salary.max.kind = "int"
        /\ fn.salary.min.val <= fn.salary.max.val

\* C18: the returned min is the extracted min, multiplied by 2080 exactly
\* when that is below 500, and the returned max is the extracted max,
\* multiplied by 2080 exactly when that is below 500.
C18_AnnualizedIndependently ==
    (SalaryParsed /\ Len(Extracted) >= 2) =>
        /\ fn.salary.min = SomeInt(Annualized(Extracted[1]))
        /\ fn.salary.max = SomeInt(Annualized(Extracted[2]))

-----------------------------------------------------------------------------
(* Properties of parse_claude_response *)

\* parse_claude_response has returned
ResponseParsed == fn.op = "parse_claude_response" /\ fn.done

\* C19: parse_claude_response returns a JSON object with a sequence under
\* "jobs": the content of the json fence when that parses, else the first
\* brace-delimited substring when that parses, else the object with no jobs
\* and the error "Failed to parse response".
C19_ParsedHasJobs ==
    ResponseParsed =>
        /\ fn.parsed.type = "object"
        /\ fn.parsed.jobs.kind = "list"
        /\ fn.parsed =
             (IF FencedMatch(fn.text) /\ JsonValid(FencedGroup(fn.text))
              THEN JsonValue(FencedGroup(fn.text))
              ELSE IF BraceMatch(fn.text) /\ JsonValid(BraceGroup(fn.text))
              THEN JsonValue(BraceGroup(fn.text))
              ELSE JsonObject(2, List(<<>>), Str(<<"Failed to parse response">>)))

-----------------------------------------------------------------------------
(* search_site_with_computer_use, step by step, called by process_import *)

\* max_iterations
MaxIterations == 10

\* the texts of the model's final answers: a fenced object with one job,
\* prose, an empty object, a fenced array, an object with an error only
ModelTexts ==
    {<<Fence, "{", JobsOne, "}", FenceEnd>>,
     <<Prose>>,
     <<"{", "}">>,
     <<Fence, OneArray, FenceEnd>>,
     <<Prose, "{", ErrorOnly, "}">>}

\* {"jobs": [], "error": msg}
ErrorResult(msg) == JsonObject(2, List(<<>>), Str(msg))

\* result["search_url"] = url
WithUrl(result, url) ==
    [result EXCEPT !.search_url = Str(url), !.len = @ + 1]

\* bool(value): a dict with a key, a list with an element
PyTruthy(value) == value.type \in {"object", "array"} /\ value.len > 0

\* a playwright whose end leaves its browsers running
WithExitMut(e) == [e EXCEPT !.playwright = "stopped"]

\* the end of the block "async with async_playwright() as p": playwright
\* stops, and with it the browser it launched
WithExit(e) ==
    [e EXCEPT !.playwright = "stopped",
              !.browser = IF @ = "open" THEN "closed" ELSE @]

\* an exception leaves the function
Propagate(e, msg) == WithExit([e EXCEPT !.pc = "raised", !.exc = msg])

\* return result, from inside the block
Return(e, result, path) ==
    WithExit([e EXCEPT !.pc = "returned", !.result = result, !.path = path])

\* lines 504-507: the handler of the try block
Handler(e, msg) ==
    Return([e EXCEPT !.browser = "closed"],
           WithUrl(ErrorResult(msg), e.search_url), "exception")

\* a loop that goes round once more
LoopGoesOnMut(iteration) == iteration <= MaxIterations

\* while iteration < max_iterations
LoopGoesOn(iteration) == iteration < MaxIterations

\* process_import calls the engine for the current site
E_Call ==
    /\ pi.pc = "search"
    /\ eng.pc = "off"
    /\ eng' = [EngOff EXCEPT !.pc = "start", !.site_id = Site.site_id,
                 !.search_url = build_search_url(Site.site_id, pi.search_params)]
    /\ UNCHANGED <<environ, import_sessions, import_site_results, jobs_table,
                   pi, wr, calls, refJobs, raisedSites, fn>>

\* lines 323-333: a site without a URL is answered at once
E_Start ==
    /\ eng.pc = "start"
    /\ eng' = IF eng.search_url = <<>>
              THEN [eng EXCEPT !.pc = "returned", !.path = "unknown_site",
                               !.result = ErrorResult(<<"Unknown site: ", eng.site_id>>)]
              ELSE [eng EXCEPT !.pc = "launch", !.playwright = "on"]
    /\ UNCHANGED <<environ, import_sessions, import_site_results, jobs_table,
                   pi, wr, calls, refJobs, raisedSites, fn>>

\* lines 334-348: the browser, its context and page; outside the try block
E_Launch ==
    /\ eng.pc = "launch"
    /\ \E outcome \in {"ok", "launch fails", "new_page fails"} :
          eng' = CASE outcome = "ok" ->
                        [eng EXCEPT !.pc = "goto", !.browser = "open"]
                   [] outcome = "launch fails" ->
                        Propagate(eng, <<"BrowserType.launch: Executable doesn't exist">>)
                   [] outcome = "new_page fails" ->
                        Propagate([eng EXCEPT !.browser = "open"],
                                  <<"Browser.new_context: Target closed">>)
    /\ UNCHANGED <<environ, import_sessions, import_site_results, jobs_table,
                   pi, wr, calls, refJobs, raisedSites, fn>>

\* lines 350-414: the page is loaded and the first screenshot taken
E_Goto ==
    /\ eng.pc = "goto"
    /\ \E ok \in BOOLEAN :
          eng' = IF ok
                 THEN [eng EXCEPT !.pc = "loop", !.screenshots = @ + 1,
                                  !.messages = <<"user">>]
                 ELSE Handler(eng, <<"Page.goto: Timeout 30000ms exceeded">>)
    /\ UNCHANGED <<environ, import_sessions, import_site_results, jobs_table,
                   pi, wr, calls, refJobs, raisedSites, fn>>

\* the blocks of a response
TextBlock(t) == [type |-> "text", text |-> t, id |-> ""]
ToolUse(id) == [type |-> "tool_use", text |-> <<>>, id |-> id]

\* the responses that ask for a tool: one request, text and a request, two
\* requests, a request and text
ToolResponses ==
    {<<ToolUse("toolu_1")>>,
     <<TextBlock(<<Prose>>), ToolUse("toolu_1")>>,
     <<ToolUse("toolu_2"), ToolUse("toolu_1")>>,
     <<ToolUse("toolu_1"), TextBlock(<<Prose>>)>>}

\* the responses without a request: no block, one text block, two text blocks
TextResponses ==
    {<<>>, <<TextBlock(<<Fence, "{">>), TextBlock(<<JobsOne, "}", FenceEnd>>)>>}
    \cup {<<TextBlock(t)>> : t \in ModelTexts}

\* a loop over the blocks that goes on behind a tool request
NextBlockMut(content, k) == k + 1

\* break: the loop over the blocks ends behind the tool request it is at
NextBlock(content, k) == Len(content) + 1

\* for block in response.content: the first tool request is executed and the
\* two turns are appended; text blocks are joined
RECURSIVE ForBlocks(_, _, _)
ForBlocks(content, k, st) ==
    IF k > Len(content) THEN st
    ELSE IF content[k].type = "tool_use"
    THEN ForBlocks(content, NextBlock(content, k),
                   [st EXCEPT !.has_tool_use = TRUE,
                              !.executed = Append(@, content[k].id),
                              !.messages = @ \o <<"assistant", "user">>])
    ELSE ForBlocks(content, k + 1,
                   [st EXCEPT !.text_response = @ \o content[k].text])

\* lines 415-494: one round of the loop: the model call, and the action with
\* its screenshot or the final answer
E_Iterate ==
    /\ eng.pc = "loop"
    /\ LoopGoesOn(eng.iteration)
    /\ LET e == [eng EXCEPT !.iteration = @ + 1, !.loop_calls = @ + 1,
                            !.content = <<>>, !.executed = <<>>]
       IN  \/ eng' = [e EXCEPT !.pc = "fallback"]
           \/ \E content \in ToolResponses \cup TextResponses :
                 LET st == ForBlocks(content, 1,
                              [has_tool_use |-> FALSE, text_response |-> <<>>,
                               executed |-> <<>>, messages |-> eng.messages])
                     c == [e EXCEPT !.content = content, !.executed = st.executed]
                 IN  IF st.has_tool_use
                     THEN \/ eng' = [c EXCEPT !.actions = @ + Len(st.executed),
                                              !.screenshots = @ + Len(st.executed),
                                              !.messages = st.messages]
                          \/ eng' = Handler([c EXCEPT !.actions = @ + 1,
                                                      !.executed = <<Head(st.executed)>>],
                                            <<"Page.screenshot: Target closed">>)
                     ELSE eng' = [c EXCEPT !.pc = "close",
                                           !.final_result =
                                               parse_claude_response(st.text_response)]
    /\ UNCHANGED <<environ, import_sessions, import_site_results, jobs_table,
                   pi, wr, calls, refJobs, raisedSites, fn>>

\* the loop ends at its bound
E_Exhausted ==
    /\ eng.pc = "loop"
    /\ ~LoopGoesOn(eng.iteration)
    /\ eng' = [eng EXCEPT !.pc = "close"]
    /\ UNCHANGED <<environ, import_sessions, import_site_results, jobs_table,
                   pi, wr, calls, refJobs, raisedSites, fn>>

\* lines 496-502: the browser is closed and the result returned
E_Close ==
    /\ eng.pc = "close"
    /\ LET e == [eng EXCEPT !.browser = "closed"]
       IN  eng' = IF PyTruthy(eng.final_result)
                  THEN IF eng.final_result.type = "array"
                       THEN Handler(e, <<"list indices must be integers or slices, not str">>)
                       ELSE Return(e, WithUrl(eng.final_result, eng.search_url), "final")
                  ELSE Return(e, WithUrl(ErrorResult(<<"Max iterations reached">>),
                                         eng.search_url), "max_iterations")
    /\ UNCHANGED <<environ, import_sessions, import_site_results, jobs_table,
                   pi, wr, calls, refJobs, raisedSites, fn>>

\* lines 434-437 and fallback_extraction: what it returns is returned
E_Fallback ==
    /\ eng.pc = "fallback"
    /\ IF ~Truthy(environ.ANTHROPIC_API_KEY)
       THEN eng' = Return(eng, ErrorResult(<<"No API key for fallback">>), "fallback")
       ELSE LET e == [eng EXCEPT !.fallback_screenshots = @ + 1,
                                 !.fallback_calls = @ + 1]
            IN  \/ eng' = Handler(eng, <<"Page.screenshot: Target closed">>)
                \/ eng' = Return(e, ErrorResult(<<"Fallback failed: ", "Connection error.">>),
                                 "fallback")
                \/ \E text \in ModelTexts :
                      eng' = Return(e, parse_claude_response(text), "fallback")
    /\ UNCHANGED <<environ, import_sessions, import_site_results, jobs_table,
                   pi, wr, calls, refJobs, raisedSites, fn>>

\* lines 842-850: process_import takes the result; a list has no "get"
E_Returns ==
    /\ pi.pc = "search"
    /\ eng.pc = "returned"
    /\ IF eng.result.type = "array"
       THEN /\ Except(<<"'list' object has no attribute 'get'">>)
            /\ wr' = wr
       ELSE /\ Returned(eng.result)
            /\ UNCHANGED <<import_site_results, raisedSites>>
    /\ eng' = EngOff
    /\ UNCHANGED <<environ, import_sessions, jobs_table, calls, refJobs, fn>>

\* the engine's exception reaches the handler of process_import
E_Raises ==
    /\ pi.pc = "search"
    /\ eng.pc = "raised"
    /\ Except(eng.exc)
    /\ eng' = EngOff
    /\ UNCHANGED <<environ, import_sessions, jobs_table, wr, calls, refJobs, fn>>

\* the invocations with the store configured, a session and an empty jobs table
InitEngine ==
    /\ Init
    /\ environ.supabase
    /\ environ.user_api_key # Str(<<>>)
    /\ SessionId \in DOMAIN import_sessions
    /\ jobs_table = <<>>

NextEngine ==
    \/ P_Connect
    \/ P_ApiKey
    \/ P_Fetch
    \/ P_MarkRunning
    \/ P_SiteRunning
    \/ E_Call
    \/ E_Start
    \/ E_Launch
    \/ E_Goto
    \/ E_Iterate
    \/ E_Exhausted
    \/ E_Close
    \/ E_Fallback
    \/ E_Returns
    \/ E_Raises
    \/ P_Save
    \/ P_SaveReturns
    \/ P_SaveRaises
    \/ P_Complete

SpecEngine == InitEngine /\ [][NextEngine]_vars

-----------------------------------------------------------------------------
(* C12: the loop of the engine is bounded *)

\* C12: the engine makes at most MaxIterations model calls in its loop, and
\* when every one of the MaxIterations responses asked for a tool action,
\* and each action was carried out with its screenshot, it returns no jobs
\* and the error "Max iterations reached"
C12_LoopBounded ==
    /\ eng.iteration <= MaxIterations
    /\ eng.loop_calls <= MaxIterations
    /\ eng.pc = "returned" /\ eng.actions = MaxIterations
          /\ eng.screenshots = MaxIterations + 1 =>
          /\ eng.result.jobs = List(<<>>)
          /\ eng.result.error = Str(<<"Max iterations reached">>)

\* ten tool actions were asked for and the engine has returned
C12_Witness ==
    /\ eng.pc = "returned"
    /\ eng.loop_calls = MaxIterations
    /\ eng.actions = MaxIterations
    /\ eng.screenshots = MaxIterations + 1
    /\ eng.path = "max_iterations"

-----------------------------------------------------------------------------
(* C13: the fallback after a failed model call *)

\* the results fallback_extraction can produce from one model call
FallbackResults ==
    {parse_claude_response(text) : text \in ModelTexts}
    \cup {ErrorResult(<<"Fallback failed: ", "Connection error.">>)}

\* C13: when a model call of the loop raises, the loop is left and the
\* fallback, whichever credential the invocation runs with, takes one more
\* screenshot and makes one model call without tools, whose parsed text is
\* what the engine returns
C13_FallbackExtracts ==
    [][eng.pc = "fallback" /\ eng'.path = "fallback" =>
          /\ eng'.pc = "returned"
          /\ eng'.loop_calls = eng.loop_calls
          /\ eng'.actions = eng.actions
          /\ eng'.fallback_screenshots = eng.fallback_screenshots + 1
          /\ eng'.fallback_calls = eng.fallback_calls + 1
          /\ eng'.result \in FallbackResults]_vars

-----------------------------------------------------------------------------
(* C14: the browser is released on every way out of the engine *)

-----------------------------------------------------------------------------
(* C15: the search URL in the results of the engine *)

\* C15: every result the engine returns for a site it has a URL for carries
\* that URL under search_url, on whatever path it returns
C15_ResultCarriesUrl ==
    eng.pc = "returned" /\ eng.search_url # <<>> =>
        eng.result.search_url = Str(eng.search_url)

-----------------------------------------------------------------------------
(* C16: a site the URL builder does not know *)

\* the site of the current iteration is none of the five known ones
UnknownSite == pi.pc \in {"search", "save"} /\ Site.site_id \notin KnownSites

\* C16: for a site that is none of linkedin, indeed, glassdoor, dice and
\* wellfound the URL is empty, the engine opens no browser and makes no model
\* call, and the site leaves its iteration through the result update, failed
\* with an error message, with the loop at the next site
C16_UnknownSiteFails ==
    [][/\ UnknownSite =>
             /\ build_search_url(Site.site_id, pi.search_params) = <<>>
             /\ Site.search_url = Str(<<>>)
             /\ eng.search_url = <<>>
             /\ eng.playwright = "off" /\ eng.browser = "none"
             /\ eng.loop_calls = 0 /\ eng.fallback_calls = 0
             /\ eng.screenshots = 0 /\ eng.fallback_screenshots = 0
       /\ UnknownSite /\ pi'.pc = "sites" =>
             /\ raisedSites' = raisedSites
             /\ import_site_results'[pi.sites[pi.i]].status = "failed"
             /\ import_site_results'[pi.sites[pi.i]].error_message
                   = Str(<<"Unknown site: ", Site.site_id>>)
             /\ pi'.i = pi.i + 1]_vars

\* an unknown first site has failed and the engine is at work on the second
C16_Witness ==
    /\ pi.pc = "search"
    /\ pi.i = 2
    /\ import_site_results[pi.sites[1]].site_id \notin KnownSites
    /\ import_site_results[pi.sites[1]].status = "failed"
    /\ eng.pc = "loop"

-----------------------------------------------------------------------------
(* two invocations of save_jobs_to_database at the same time *)

\* the jobs the two invocations are given
RaceJobs == {"JB", "JC"}

InitRace ==
    /\ InitSave
    /\ jobs_table = <<>>

\* an invocation is called, once, while the other may be at any point
R_Call(w) ==
    /\ wr[w].pc = "idle"
    /\ \E l \in JobLists(RaceJobs) : \E source \in WriterSources :
          wr' = [wr EXCEPT ![w] = WriterEntry(List(l), source, FALSE)]
    /\ UNCHANGED <<environ, import_sessions, import_site_results, jobs_table,
                   pi, calls, refJobs, raisedSites, fn, eng>>

\* one store request or loop step of an invocation
R_Step(w) ==
    /\ WriterStep(w)
    /\ UNCHANGED <<environ, import_sessions, import_site_results, pi, calls,
                   refJobs, raisedSites, fn, eng>>

NextRace == \E w \in Writers : R_Call(w) \/ R_Step(w)

SpecRace == InitRace /\ [][NextRace]_vars

\* the insert of invocation w adds its row and counts it
InsertsAndCounts(w) ==
    /\ W_Insert(w)
    /\ jobs_table' = Append(jobs_table, wr[w].normalized)
    /\ wr'[w].imported = wr[w].imported + 1

\* rows i and j of the table are two rows with one URL
SameUrlRows(table) ==
    {p \in (1..Len(table)) \X (1..Len(table)) :
        p[1] < p[2] /\ table[p[1]].url = table[p[2]].url}

\* C21: the check and the insert are not one step: an invocation that has
\* passed both checks for a job can insert it and count it whatever the other
\* invocation has put into the table since, so that two invocations given the
\* same job can both insert it
C21_InsertNotAtomic ==
    \A w \in Writers : wr[w].pc = "insert" => ENABLED InsertsAndCounts(w)

\* both invocations were given the job JB alone, both have returned with
\* imported = 1, and the table holds two rows with its URL
C21_Witness ==
    /\ \A w \in Writers :
          /\ wr[w].pc = "returned"
          /\ wr[w].jobs = List(<<"JB">>)
          /\ wr[w].imported = 1
          /\ wr[w].duplicates = 0
    /\ Len(jobs_table) = 2
    /\ SameUrlRows(jobs_table) # {}

-----------------------------------------------------------------------------
(* C26: the table under calls made one at a time *)

\* C26: under calls of save_jobs_to_database made one after another, from a
\* table without two rows of one URL, with any job lists, the table never
\* holds two rows of one URL, and a step changes the table only by adding a
\* row behind the rows it has
C26_UrlsStayUnique ==
    /\ [](SameUrlRows(jobs_table) = {})
    /\ [][/\ Len(jobs_table') >= Len(jobs_table)
          /\ SubSeq(jobs_table', 1, Len(jobs_table)) = jobs_table]_vars

\* the second call was given the job JC twice and has returned, each of the
\* two either inserted or counted a duplicate, and the table holds two rows
C26_Witness ==
    /\ calls.n = 2
    /\ calls.last.pc = "returned"
    /\ calls.last.jobs = List(<<"JC", "JC">>)
    /\ calls.last.imported + calls.last.duplicates = 2
    /\ Len(jobs_table) = 2

-----------------------------------------------------------------------------
(* C23, C24: the sites of a session, one after another *)

\* the site results of the session that are running
RunningSites ==
    {r \in SessionSites : import_site_results[r].status = "running"}

\* C23: at most one site result of the session is running at any time, and a
\* site result becomes running only when every site result before it in the
\* order they were loaded in is completed or failed
C23_SitesOneAfterAnother ==
    /\ [](Cardinality(RunningSites) <= 1)
    /\ [][\A k \in 1..Len(pi.sites) :
             (/\ import_site_results[pi.sites[k]].status # "running"
              /\ import_site_results'[pi.sites[k]].status = "running")
             => \A j \in 1..(k - 1) :
                   import_site_results[pi.sites[j]].status \in Terminal]_vars

\* the second site of the session is running, the first is completed or failed
C23_Witness ==
    /\ Len(pi.sites) = MaxSites
    /\ pi.i = 2
    /\ RunningSites = {pi.sites[2]}
    /\ import_site_results[pi.sites[1]].status \in Terminal

\* C24: when the session is completed, every site result loaded for it is
\* completed or failed
C24_CompletedSessionHasNoOpenSite ==
    HasSession /\ Session.status = "completed" =>
        /\ \A k \in 1..Len(pi.sites) :
              import_site_results[pi.sites[k]].status \in Terminal
        /\ \A r \in SessionSites :
              import_site_results[r].status \in Terminal

\* the session is completed and had as many sites as a session may have here
C24_Witness ==
    /\ HasSession
    /\ Session.status = "completed"
    /\ Len(pi.sites) = MaxSites
    /\ \A r \in SessionSites : import_site_results[r].status \in Terminal

-----------------------------------------------------------------------------
(* C25: the session's count of imported jobs and the rows inserted *)

\* C25: when the session is completed, from an empty jobs table,
\* total_jobs_imported is the number of rows the invocation has inserted,
\* whatever the calls for the sites did
C25_TotalImportedIsRowsInserted ==
    HasSession /\ Session.status = "completed" =>
        Session.total_jobs_imported = Len(jobs_table)

-----------------------------------------------------------------------------
(* C22: the answer that ends the loop *)

\* C22: when a response without a tool request has ended the loop, no model
\* call or page action follows, and the engine returns the object
\* parse_claude_response gave for its text, an empty one too, with the search
\* URL attached
C22_FinalAnswerReturned ==
    [][eng.pc = "close" /\ eng.final_result.type = "object" =>
          /\ eng'.pc = "returned"
          /\ eng'.loop_calls = eng.loop_calls
          /\ eng'.fallback_calls = eng.fallback_calls
          /\ eng'.actions = eng.actions
          /\ eng'.result = WithUrl(eng.final_result, eng.search_url)]_vars

-----------------------------------------------------------------------------
(* C27: the conversation of the loop *)

\* the turns are user, assistant, user, ..., user
Alternates(messages) ==
    /\ Len(messages) % 2 = 1
    /\ \A k \in 1..Len(messages) :
          messages[k] = IF k % 2 = 1 THEN "user" ELSE "assistant"

\* the ids of the tool requests of a response, in its order
ToolUseIds(content) ==
    [k \in 1..Cardinality({j \in 1..Len(content) : content[j].type = "tool_use"}) |->
        LET j == CHOOSE j \in 1..Len(content) :
                    /\ content[j].type = "tool_use"
                    /\ Cardinality({i \in 1..j : content[i].type = "tool_use"}) = k
        IN  content[j].id]

\* C27: a round of the loop executes at most one page action, the first tool
\* request of its response, and appends one assistant turn and one user turn;
\* before every model call the conversation alternates between user and
\* assistant turns from a user turn to a user turn; and the actions executed
\* are never more than the model calls made
C27_OneActionPerRound ==
    /\ [](/\ eng.actions <= eng.loop_calls
          /\ eng.pc = "loop" => Alternates(eng.messages))
    /\ [][eng.pc = "loop" /\ eng'.loop_calls = eng.loop_calls + 1 =>
             /\ eng'.actions <= eng.actions + 1
             /\ eng'.actions = eng.actions + Len(eng'.executed)
             /\ ToolUseIds(eng'.content) # <<>> =>
                   eng'.executed = <<Head(ToolUseIds(eng'.content))>>
             /\ eng'.pc = "loop" =>
                   /\ eng'.executed # <<>>
                   /\ eng'.messages = eng.messages \o <<"assistant", "user">>
             /\ eng'.pc # "loop" => eng'.messages = eng.messages]_vars

\* the second response held two tool requests, the first of them was executed,
\* and the loop is before its third model call
C27_Witness ==
    /\ eng.pc = "loop"
    /\ eng.loop_calls = 2
    /\ eng.actions = 2
    /\ eng.content = <<ToolUse("toolu_2"), ToolUse("toolu_1")>>
    /\ eng.executed = <<"toolu_2">>
    /\ eng.messages = <<"user", "assistant", "user", "assistant", "user">>

====
